---- MODULE Spec2Model ----
(***************************************************************************)
(* Model of the SqliteLogAppender of src/lib.rs: a log4rs appender that     *)
(* buffers log records in a Vec guarded by an RwLock and writes the whole   *)
(* buffer to an SQLite file in one transaction when the buffer reaches      *)
(* buf_size records, or when flush() is called.                             *)
(*                                                                         *)
(* Every producer thread is a small state machine (pc) that walks through   *)
(* the statements of append() / flush() / flush_buf() one store call at a   *)
(* time, so that the lock, the connection and the transaction are visible   *)
(* between the steps.  The store is the file behind file_name: whether the  *)
(* table and the index exist, and the committed rows in insertion order.    *)
(***************************************************************************)
EXTENDS Integers, Sequences, FiniteSets, TLC

\* ---------------------------------------------------------------- bounds
\* producer threads, largest buf_size tried, records handed to append
NThreads == 2
MaxBufSize == 3
MaxRecords == 3

Threads == 1..NThreads
None == 0
Levels == {"INFO"}
Messages == {"m"}
FileNames == {"good", "bad"}

VARIABLES
    sink,        \* "none" before SqliteLogAppender::new, then "ready" (Ok) or "error" (Err)
    buf,         \* SqliteLogAppender.buf: the Vec<LogRecord>
    buf_size,    \* SqliteLogAppender.buf_size
    file_name,   \* SqliteLogAppender.file_name
    writer,      \* the thread holding the RwLock write guard, or None
    poisoned,    \* the RwLock's poison flag
    store,       \* the SQLite file: [table, index, rows]
    healthy,     \* environment: the store answers calls (TRUE) or fails them
    pc,          \* per thread: position in append()/flush()
    op,          \* per thread: the call it is in or was last in
    lr,          \* per thread: the LogRecord built by append(), NoRecord outside a call
    conn,        \* per thread: the rusqlite::Connection of flush_buf ("closed"/"open")
    tx,          \* per thread: rows inserted in the open transaction
    in_tx,       \* per thread: a transaction is open on conn
    idx,         \* per thread: position of the for loop over buf_lock.iter()
    result,      \* per thread: what the last finished call returned
    nopen,       \* per thread: Connection::open calls made by the call in progress
    next_id,     \* the next fresh uuid
    clock,       \* chrono::Utc::now(), in ticks; every reading is later than the one before
    arrival,     \* history: the records pushed, in push order
    buf0,        \* history: the buffer as the current lock holder found it
    explicit,    \* history: flush() has been called
    last_flush   \* history: outcome of the latest flush_buf: "none", "ok", "failed"

vars == <<sink, buf, buf_size, file_name, writer, poisoned, store, healthy, pc, op,
          lr, conn, tx, in_tx, idx, result, nopen, next_id, clock, arrival, buf0,
          explicit, last_flush>>

sinkVars == <<sink, buf_size, file_name>>
lockVars == <<writer, poisoned>>
histVars == <<arrival, buf0, explicit, last_flush>>
stampVars == <<next_id, clock>>
connVars == <<conn, tx, in_tx, idx>>

NoRecord == [id |-> 0, ts |-> 0, level |-> "", message |-> ""]
EmptyStore == [table |-> FALSE, index |-> FALSE, rows |-> <<>>]

\* ------------------------------------------------------- pure helpers
Ids(s) == {s[i].id : i \in 1..Len(s)}

\* LogRecord { id: Uuid::new_v4(), level, ts: Utc::now(), message }
NewLogRecord(id, now, level, message) ==
    [id |-> id, ts |-> now, level |-> level, message |-> message]

\* variant: the timestamp is taken under the lock, when the record is pushed
Push_restamp(b, r) == Append(b, [r EXCEPT !.ts = clock])

\* variant: the record is put in front of the buffer
Push_front(b, r) == <<r>> \o b

\* buf_lock.push(lr)
Push(b, r) == Append(b, r)

\* variant: off by one, the flush waits for one record more
BelowThreshold_le(b, size) == Len(b) <= size

\* variant: off by one, the flush starts one record early
BelowThreshold_early(b, size) == Len(b) + 1 < size

\* variant: the threshold test never asks for a flush
BelowThreshold_never(b, size) == TRUE

\* if buf_lock.len() < self.buf_size { return Ok(()) }
BelowThreshold(b, size) == Len(b) < size

\* variant: only the first record is taken out of the buffer
Cleared_drain1(b) == IF b = <<>> THEN b ELSE Tail(b)

\* variant: the buffer is not cleared after the commit
Cleared_keep(b) == b

\* buf_lock.clear()
Cleared(b) == <<>>

\* rusqlite::Connection::open(&self.file_name)
OpenSucceeds(fn, up) == fn = "good" /\ up

\* id varchar(128) not null primary key
PkViolation(r, rows, pending) == r.id \in (Ids(rows) \cup Ids(pending))

\* variant: the transaction is set to commit when dropped
DropTx_commit(rows, pending) == rows \o pending

\* a Transaction dropped without commit() rolls back (rusqlite's default
\* DropBehavior::Rollback): the rows stay as they were
DropTx(rows, pending) == rows

\* variant: the connection is kept for the next flush instead of being dropped
Dropped_kept(c) == c

\* conn goes out of scope when flush_buf returns, with Ok or through `?`
Dropped(c) == "closed"

\* variant: plain "create table" / "create index", an error when it exists
CreateSucceeds_plain(exists) == ~exists

\* "create table if not exists" / "create index if not exists" give no error
\* whether or not the object exists
CreateSucceeds(exists) == TRUE

\* tx.commit(): the pending rows become durable, after the rows already there
Committed(rows, pending) == rows \o pending

Quiescent == \A t \in Threads : pc[t] \in {"idle", "panicked"}

\* ------------------------------------------------------------- Init
Init ==
    /\ sink = "none"
    /\ buf = <<>>
    /\ buf_size = 0
    /\ file_name = "good"
    /\ writer = None
    /\ poisoned = FALSE
    /\ store = EmptyStore
    /\ healthy = TRUE
    /\ pc = [t \in Threads |-> "idle"]
    /\ op = [t \in Threads |-> "none"]
    /\ lr = [t \in Threads |-> NoRecord]
    /\ conn = [t \in Threads |-> "closed"]
    /\ tx = [t \in Threads |-> <<>>]
    /\ in_tx = [t \in Threads |-> FALSE]
    /\ idx = [t \in Threads |-> 0]
    /\ result = [t \in Threads |-> "none"]
    /\ nopen = [t \in Threads |-> 0]
    /\ next_id = 1
    /\ clock = 0
    /\ arrival = <<>>
    /\ buf0 = <<>>
    /\ explicit = FALSE
    /\ last_flush = "none"

\* ------------------------------------------------------ construction
\* variant: the constructor opens the store and creates the schema
New_eager(bs, fn) ==
    /\ sink = "none"
    /\ sink' = IF OpenSucceeds(fn, healthy) THEN "ready" ELSE "error"
    /\ store' = IF OpenSucceeds(fn, healthy)
                THEN [store EXCEPT !.table = TRUE, !.index = TRUE]
                ELSE store
    /\ buf' = <<>>
    /\ buf_size' = bs
    /\ file_name' = fn
    /\ UNCHANGED <<lockVars, healthy, pc, op, lr, connVars, result, nopen,
                   stampVars, histVars>>

\* SqliteLogAppender::new(buf_size, file_name): always Ok, touches no file
New(bs, fn) ==
    /\ sink = "none"
    /\ sink' = "ready"
    /\ buf' = <<>>
    /\ buf_size' = bs
    /\ file_name' = fn
    /\ UNCHANGED <<lockVars, store, healthy, pc, op, lr, connVars, result, nopen,
                   stampVars, histVars>>

\* ------------------------------------------------------- environment
\* the store stops answering (disk full, file locked, directory removed ...)
StoreDown ==
    /\ healthy
    /\ healthy' = FALSE
    /\ UNCHANGED <<sinkVars, buf, lockVars, store, pc, op, lr, connVars, result,
                   nopen, stampVars, histVars>>

StoreUp ==
    /\ ~healthy
    /\ healthy' = TRUE
    /\ UNCHANGED <<sinkVars, buf, lockVars, store, pc, op, lr, connVars, result,
                   nopen, stampVars, histVars>>

\* ----------------------------------------------------------- append
\* append(), lines 77-84: build the LogRecord before taking the lock
AppendStart(t, level, message) ==
    /\ sink = "ready"
    /\ pc[t] = "idle"
    /\ next_id <= MaxRecords
    /\ lr' = [lr EXCEPT ![t] = NewLogRecord(next_id, clock, level, message)]
    /\ next_id' = next_id + 1
    /\ clock' = clock + 1
    /\ op' = [op EXCEPT ![t] = "append"]
    /\ pc' = [pc EXCEPT ![t] = "lock"]
    /\ result' = [result EXCEPT ![t] = "none"]
    /\ nopen' = [nopen EXCEPT ![t] = 0]
    /\ UNCHANGED <<sinkVars, buf, lockVars, store, healthy, connVars, histVars>>

\* variant: the guard is handed out although another one exists
LockFree_always(t) == TRUE

\* self.buf.write(): blocks while another guard exists; Ok(guard) or Err(PoisonError)
LockFree(t) == writer = None

\* append(), lines 85-88: take the write lock; a poisoned lock is returned as Err
AppendLock(t) ==
    /\ pc[t] = "lock"
    /\ op[t] = "append"
    /\ LockFree(t)
    /\ IF poisoned
       THEN /\ pc' = [pc EXCEPT ![t] = "idle"]
            /\ result' = [result EXCEPT ![t] = "err"]
            /\ UNCHANGED <<writer, buf0>>
       ELSE /\ pc' = [pc EXCEPT ![t] = "push"]
            /\ writer' = t
            /\ buf0' = buf
            /\ UNCHANGED result
    /\ UNCHANGED <<sinkVars, buf, poisoned, store, healthy, op, lr, connVars, nopen,
                   stampVars, arrival, explicit, last_flush>>

\* append(), line 89
AppendPush(t) ==
    /\ pc[t] = "push"
    /\ buf' = Push(buf, lr[t])
    /\ arrival' = Append(arrival, lr[t])
    /\ pc' = [pc EXCEPT ![t] = "maybe_flush"]
    /\ UNCHANGED <<sinkVars, lockVars, store, healthy, op, lr, connVars, result, nopen,
                   stampVars, buf0, explicit, last_flush>>

\* variant: append() returns Ok but the guard is leaked, the lock stays taken
MaybeFlushSkip_leak(t) ==
    /\ pc[t] = "maybe_flush"
    /\ BelowThreshold(buf, buf_size)
    /\ pc' = [pc EXCEPT ![t] = "idle"]
    /\ result' = [result EXCEPT ![t] = "ok"]
    /\ buf0' = <<>>
    /\ lr' = [lr EXCEPT ![t] = NoRecord]
    /\ nopen' = [nopen EXCEPT ![t] = 0]
    /\ UNCHANGED <<sinkVars, buf, lockVars, store, healthy, op, connVars,
                   stampVars, arrival, explicit, last_flush>>

\* maybe_flush_buf(), lines 44-46, then append() returns Ok and drops the guard
MaybeFlushSkip(t) ==
    /\ pc[t] = "maybe_flush"
    /\ BelowThreshold(buf, buf_size)
    /\ pc' = [pc EXCEPT ![t] = "idle"]
    /\ result' = [result EXCEPT ![t] = "ok"]
    /\ writer' = None
    /\ buf0' = <<>>
    /\ lr' = [lr EXCEPT ![t] = NoRecord]
    /\ nopen' = [nopen EXCEPT ![t] = 0]
    /\ UNCHANGED <<sinkVars, buf, poisoned, store, healthy, op, connVars,
                   stampVars, arrival, explicit, last_flush>>

\* maybe_flush_buf(), line 47: call flush_buf
MaybeFlushGo(t) ==
    /\ pc[t] = "maybe_flush"
    /\ ~BelowThreshold(buf, buf_size)
    /\ pc' = [pc EXCEPT ![t] = "connect"]
    /\ UNCHANGED <<sinkVars, buf, lockVars, store, healthy, op, lr, connVars, result,
                   nopen, stampVars, histVars>>

\* ------------------------------------------------------------ flush
\* flush() is called
FlushStart(t) ==
    /\ sink = "ready"
    /\ pc[t] = "idle"
    /\ op' = [op EXCEPT ![t] = "flush"]
    /\ pc' = [pc EXCEPT ![t] = "lock"]
    /\ result' = [result EXCEPT ![t] = "none"]
    /\ nopen' = [nopen EXCEPT ![t] = 0]
    /\ explicit' = TRUE
    /\ UNCHANGED <<sinkVars, buf, lockVars, store, healthy, lr, connVars, stampVars,
                   arrival, buf0, last_flush>>

\* flush(), line 94: write().expect(...) panics on a poisoned lock
FlushLock(t) ==
    /\ pc[t] = "lock"
    /\ op[t] = "flush"
    /\ LockFree(t)
    /\ IF poisoned
       THEN /\ pc' = [pc EXCEPT ![t] = "panicked"]
            /\ UNCHANGED <<writer, buf0>>
       ELSE /\ pc' = [pc EXCEPT ![t] = "connect"]
            /\ writer' = t
            /\ buf0' = buf
    /\ UNCHANGED <<sinkVars, buf, poisoned, store, healthy, op, lr, connVars, result,
                   nopen, stampVars, arrival, explicit, last_flush>>

\* -------------------------------------------------------- flush_buf
\* an Err leaves flush_buf through `?`: stmt, tx and conn are dropped, which
\* rolls the open transaction back and closes the connection
Fail(t) ==
    /\ pc' = [pc EXCEPT ![t] = "failed"]
    /\ conn' = [conn EXCEPT ![t] = Dropped(@)]
    /\ tx' = [tx EXCEPT ![t] = <<>>]
    /\ in_tx' = [in_tx EXCEPT ![t] = FALSE]
    /\ idx' = [idx EXCEPT ![t] = 0]
    /\ store' = [store EXCEPT !.rows = DropTx(@, tx[t])]
    /\ last_flush' = "failed"

\* connect(), line 39
Connect(t) ==
    /\ pc[t] = "connect"
    /\ nopen' = [nopen EXCEPT ![t] = @ + 1]
    /\ IF OpenSucceeds(file_name, healthy)
       THEN /\ conn' = [conn EXCEPT ![t] = "open"]
            /\ pc' = [pc EXCEPT ![t] = "create_table"]
            /\ UNCHANGED <<store, tx, in_tx, idx, last_flush>>
       ELSE Fail(t)
    /\ UNCHANGED <<sinkVars, buf, lockVars, healthy, op, lr, result, stampVars,
                   arrival, buf0, explicit>>

\* create_entry_table_if_not_exists(), line 34
CreateTable(t) ==
    /\ pc[t] = "create_table"
    /\ IF healthy /\ CreateSucceeds(store.table)
       THEN /\ store' = [store EXCEPT !.table = TRUE]
            /\ pc' = [pc EXCEPT ![t] = "create_index"]
            /\ UNCHANGED <<connVars, last_flush>>
       ELSE Fail(t)
    /\ UNCHANGED <<sinkVars, buf, lockVars, healthy, op, lr, result, nopen, stampVars,
                   arrival, buf0, explicit>>

\* create_entry_table_if_not_exists(), line 35
CreateIndex(t) ==
    /\ pc[t] = "create_index"
    /\ IF healthy /\ store.table /\ CreateSucceeds(store.index)
       THEN /\ store' = [store EXCEPT !.index = TRUE]
            /\ pc' = [pc EXCEPT ![t] = "begin"]
            /\ UNCHANGED <<connVars, last_flush>>
       ELSE Fail(t)
    /\ UNCHANGED <<sinkVars, buf, lockVars, healthy, op, lr, result, nopen, stampVars,
                   arrival, buf0, explicit>>

\* flush_buf(), line 52: conn.transaction()
Begin(t) ==
    /\ pc[t] = "begin"
    /\ IF healthy
       THEN /\ in_tx' = [in_tx EXCEPT ![t] = TRUE]
            /\ tx' = [tx EXCEPT ![t] = <<>>]
            /\ pc' = [pc EXCEPT ![t] = "prepare"]
            /\ UNCHANGED <<store, conn, idx, last_flush>>
       ELSE Fail(t)
    /\ UNCHANGED <<sinkVars, buf, lockVars, healthy, op, lr, result, nopen,
                   stampVars, arrival, buf0, explicit>>

\* flush_buf(), lines 54-56: tx.prepare(...), then enter the for loop
Prepare(t) ==
    /\ pc[t] = "prepare"
    /\ IF healthy /\ store.table
       THEN /\ idx' = [idx EXCEPT ![t] = 1]
            /\ pc' = [pc EXCEPT ![t] = IF Len(buf) = 0 THEN "commit" ELSE "insert"]
            /\ UNCHANGED <<store, conn, tx, in_tx, last_flush>>
       ELSE Fail(t)
    /\ UNCHANGED <<sinkVars, buf, lockVars, healthy, op, lr, result, nopen,
                   stampVars, arrival, buf0, explicit>>

\* flush_buf(), lines 56-58: one stmt.execute per buffered record, in buffer order
Insert(t) ==
    /\ pc[t] = "insert"
    /\ IF healthy /\ ~PkViolation(buf[idx[t]], store.rows, tx[t])
       THEN /\ tx' = [tx EXCEPT ![t] = Append(@, buf[idx[t]])]
            /\ idx' = [idx EXCEPT ![t] = @ + 1]
            /\ pc' = [pc EXCEPT ![t] = IF idx[t] = Len(buf) THEN "commit" ELSE "insert"]
            /\ UNCHANGED <<store, conn, in_tx, last_flush>>
       ELSE Fail(t)
    /\ UNCHANGED <<sinkVars, buf, lockVars, healthy, op, lr, result, nopen,
                   stampVars, arrival, buf0, explicit>>

\* flush_buf(), line 60: tx.commit()
Commit(t) ==
    /\ pc[t] = "commit"
    /\ IF healthy
       THEN /\ store' = [store EXCEPT !.rows = Committed(@, tx[t])]
            /\ tx' = [tx EXCEPT ![t] = <<>>]
            /\ in_tx' = [in_tx EXCEPT ![t] = FALSE]
            /\ pc' = [pc EXCEPT ![t] = "clear"]
            /\ UNCHANGED <<conn, idx, last_flush>>
       ELSE Fail(t)
    /\ UNCHANGED <<sinkVars, buf, lockVars, healthy, op, lr, result, nopen, stampVars,
                   arrival, buf0, explicit>>

\* flush_buf(), lines 61-63: buf_lock.clear(); Ok(()) and conn is dropped
Clear(t) ==
    /\ pc[t] = "clear"
    /\ buf' = Cleared(buf)
    /\ conn' = [conn EXCEPT ![t] = Dropped(@)]
    /\ idx' = [idx EXCEPT ![t] = 0]
    /\ pc' = [pc EXCEPT ![t] = "flushed"]
    /\ last_flush' = "ok"
    /\ UNCHANGED <<sinkVars, lockVars, store, healthy, op, lr, tx, in_tx, result, nopen,
                   stampVars, arrival, buf0, explicit>>

\* ---------------------------------------------------------- returns
\* append() line 91 / flush() line 96: Ok, the guard is dropped
ReturnOk(t) ==
    /\ pc[t] = "flushed"
    /\ pc' = [pc EXCEPT ![t] = "idle"]
    /\ result' = [result EXCEPT ![t] = "ok"]
    /\ writer' = None
    /\ buf0' = <<>>
    /\ lr' = [lr EXCEPT ![t] = NoRecord]
    /\ nopen' = [nopen EXCEPT ![t] = 0]
    /\ UNCHANGED <<sinkVars, buf, poisoned, store, healthy, op, connVars,
                   stampVars, arrival, explicit, last_flush>>

\* variant: append() unwraps the flush result, like flush() does
AppendReturnErr_expect(t) ==
    /\ pc[t] = "failed"
    /\ op[t] = "append"
    /\ pc' = [pc EXCEPT ![t] = "panicked"]
    /\ poisoned' = TRUE
    /\ writer' = None
    /\ buf0' = <<>>
    /\ lr' = [lr EXCEPT ![t] = NoRecord]
    /\ nopen' = [nopen EXCEPT ![t] = 0]
    /\ UNCHANGED <<sinkVars, buf, store, healthy, op, connVars, result,
                   stampVars, arrival, explicit, last_flush>>

\* append() line 90: `?` returns the Err of maybe_flush_buf; the guard is dropped
AppendReturnErr(t) ==
    /\ pc[t] = "failed"
    /\ op[t] = "append"
    /\ pc' = [pc EXCEPT ![t] = "idle"]
    /\ result' = [result EXCEPT ![t] = "err"]
    /\ writer' = None
    /\ buf0' = <<>>
    /\ lr' = [lr EXCEPT ![t] = NoRecord]
    /\ nopen' = [nopen EXCEPT ![t] = 0]
    /\ UNCHANGED <<sinkVars, buf, poisoned, store, healthy, op, connVars,
                   stampVars, arrival, explicit, last_flush>>

\* variant: flush() drops the result of flush_buf and returns
FlushPanic_swallow(t) ==
    /\ pc[t] = "failed"
    /\ op[t] = "flush"
    /\ pc' = [pc EXCEPT ![t] = "idle"]
    /\ result' = [result EXCEPT ![t] = "ok"]
    /\ writer' = None
    /\ buf0' = <<>>
    /\ lr' = [lr EXCEPT ![t] = NoRecord]
    /\ nopen' = [nopen EXCEPT ![t] = 0]
    /\ UNCHANGED <<sinkVars, buf, poisoned, store, healthy, op, connVars,
                   stampVars, arrival, explicit, last_flush>>

\* variant: the lock has no poisoning, the panic just releases it
FlushPanic_nopoison(t) ==
    /\ pc[t] = "failed"
    /\ op[t] = "flush"
    /\ pc' = [pc EXCEPT ![t] = "panicked"]
    /\ writer' = None
    /\ buf0' = <<>>
    /\ lr' = [lr EXCEPT ![t] = NoRecord]
    /\ nopen' = [nopen EXCEPT ![t] = 0]
    /\ UNCHANGED <<sinkVars, buf, poisoned, store, healthy, op, connVars, result,
                   stampVars, arrival, explicit, last_flush>>

\* flush() line 95: expect() panics; the guard is dropped while unwinding,
\* which poisons the lock
FlushPanic(t) ==
    /\ pc[t] = "failed"
    /\ op[t] = "flush"
    /\ pc' = [pc EXCEPT ![t] = "panicked"]
    /\ poisoned' = TRUE
    /\ writer' = None
    /\ buf0' = <<>>
    /\ lr' = [lr EXCEPT ![t] = NoRecord]
    /\ nopen' = [nopen EXCEPT ![t] = 0]
    /\ UNCHANGED <<sinkVars, buf, store, healthy, op, connVars, result,
                   stampVars, arrival, explicit, last_flush>>

\* --------------------------------------------------------------- Next
Next ==
    \/ \E bs \in 1..MaxBufSize, fn \in FileNames : New(bs, fn)
    \/ StoreDown
    \/ StoreUp
    \/ \E t \in Threads, l \in Levels, m \in Messages : AppendStart(t, l, m)
    \/ \E t \in Threads : AppendLock(t)
    \/ \E t \in Threads : AppendPush(t)
    \/ \E t \in Threads : MaybeFlushSkip(t)
    \/ \E t \in Threads : MaybeFlushGo(t)
    \/ \E t \in Threads : FlushStart(t)
    \/ \E t \in Threads : FlushLock(t)
    \/ \E t \in Threads : Connect(t)
    \/ \E t \in Threads : CreateTable(t)
    \/ \E t \in Threads : CreateIndex(t)
    \/ \E t \in Threads : Begin(t)
    \/ \E t \in Threads : Prepare(t)
    \/ \E t \in Threads : Insert(t)
    \/ \E t \in Threads : Commit(t)
    \/ \E t \in Threads : Clear(t)
    \/ \E t \in Threads : ReturnOk(t)
    \/ \E t \in Threads : AppendReturnErr(t)
    \/ \E t \in Threads : FlushPanic(t)

Spec == Init /\ [][Next]_vars

\* a thread that holds the guard takes its next step: its code runs, and
\* every store call it makes returns
Running(t) ==
    \/ AppendPush(t) \/ MaybeFlushSkip(t) \/ MaybeFlushGo(t)
    \/ Connect(t) \/ CreateTable(t) \/ CreateIndex(t) \/ Begin(t) \/ Prepare(t)
    \/ Insert(t) \/ Commit(t) \/ Clear(t)
    \/ ReturnOk(t) \/ AppendReturnErr(t) \/ FlushPanic(t)

\* a thread waiting in self.buf.write() gets the lock
Acquire(t) == AppendLock(t) \/ FlushLock(t)

\* threads keep running, and the lock is fair: a waiter that can take the
\* lock again and again does take it
FairSpec ==
    /\ Spec
    /\ \A t \in Threads : WF_vars(Running(t))
    /\ \A t \in Threads : SF_vars(Acquire(t))

\* ============================================================ properties
InAppend(t) == op[t] = "append" /\ pc[t] \notin {"idle", "panicked"}
InFlushCall(t) == op[t] = "flush" /\ pc[t] \notin {"idle", "panicked"}
NoAppendInProgress == \A t \in Threads : ~InAppend(t)

\* positions at which the thread holds the write guard
CsPcs == {"push", "maybe_flush", "connect", "create_table", "create_index", "begin",
          "prepare", "insert", "commit", "clear", "flushed", "failed"}
\* positions inside flush_buf
FlushPcs == {"connect", "create_table", "create_index", "begin", "prepare", "insert",
             "commit", "clear"}

\* the records the lock holder's flush_buf has to write
Batch(t) == IF op[t] = "append" THEN Append(buf0, lr[t]) ELSE buf0

IsPrefix(s, r) == Len(s) <= Len(r) /\ \A i \in 1..Len(s) : s[i] = r[i]

\* the step by which append() of thread t returns to its caller
AppendReturns(t) == op[t] = "append" /\ pc[t] \in CsPcs /\ pc'[t] = "idle"

\* ---- C1: when the k-th append brings the buffer to buf_size and the store
\* works (no explicit flush, no failed flush), that append returns Ok having
\* opened one connection itself, the buffer is empty and the store holds
\* exactly the records appended so far, in append order.
C1_FlushAtThreshold ==
    [][\A t \in Threads :
          (/\ AppendReturns(t)
           /\ ~explicit
           /\ last_flush' # "failed"
           /\ Len(buf0) + 1 = buf_size)
          => (/\ result'[t] = "ok"
              /\ nopen[t] = 1
              /\ buf' = <<>>
              /\ store'.rows = arrival)]_vars

C1_Witness ==
    /\ Quiescent
    /\ ~explicit
    /\ buf_size = 2
    /\ buf = <<>>
    /\ Len(store.rows) = 2
    /\ store.rows = arrival
    /\ last_flush = "ok"
    /\ \E t \in Threads : op[t] = "append" /\ result[t] = "ok"

\* ---- C2: as long as fewer than buf_size records were handed to append and
\* flush() was never called, no connection has been opened, the store is
\* untouched, and the buffer holds the pushed records in push order (all the
\* records once the calls have returned).
C2_NoStoreBelowThreshold ==
    (sink = "ready" /\ ~explicit /\ next_id - 1 < buf_size)
    => (/\ \A t \in Threads : nopen[t] = 0 /\ conn[t] = "closed"
        /\ last_flush = "none"
        /\ store = EmptyStore
        /\ buf = arrival
        /\ Quiescent => Len(buf) = next_id - 1)

C2_Witness ==
    /\ Quiescent
    /\ ~explicit
    /\ buf_size = 3
    /\ Len(buf) = 2
    /\ next_id = 3
    /\ store = EmptyStore
    /\ buf[1].id = 2

\* ---- C3: a flush attempt ends in one of two ways: it failed, the buffer is
\* the full batch unchanged and no record of the batch is in the store; or it
\* succeeded, the buffer is empty and the whole batch is in the store.
C3_FlushAllOrNothing ==
    \A t \in Threads :
        /\ pc[t] = "failed"
           => (buf = Batch(t) /\ Ids(buf) \cap Ids(store.rows) = {})
        /\ pc[t] = "flushed"
           => (/\ buf = <<>>
               /\ Len(store.rows) >= Len(Batch(t))
               /\ SubSeq(store.rows, Len(store.rows) - Len(Batch(t)) + 1,
                         Len(store.rows)) = Batch(t))
        /\ pc[t] \in FlushPcs \ {"clear"}
           => (buf = Batch(t) /\ Ids(buf) \cap Ids(store.rows) = {})

\* a batch of two failed after the schema was created: begin, insert or commit failed
C3_Witness ==
    \E t \in Threads :
        /\ pc[t] = "failed"
        /\ Len(buf) = 2
        /\ store.index
        /\ store.rows = <<>>
        /\ healthy = FALSE

\* ---- C4 as stated: whenever no append is in progress the buffer is not
\* longer than buf_size.
C4_Original == NoAppendInProgress => Len(buf) <= buf_size

\* ---- C4 amended: whenever no append is in progress and the latest flush
\* attempt did not fail, the buffer is not longer than buf_size; and every
\* append that brings the buffer to or past buf_size opens a connection for a
\* flush before it returns.
C4_BoundedUnlessFailed ==
    /\ [](NoAppendInProgress /\ last_flush # "failed" => Len(buf) <= buf_size)
    /\ [][\A t \in Threads :
             (AppendReturns(t) /\ Len(buf0) + 1 >= buf_size) => nopen[t] = 1]_vars

\* the buffer has outgrown buf_size after failed flushes
C4_Witness ==
    /\ Quiescent
    /\ buf_size = 1
    /\ Len(buf) = 3
    /\ last_flush = "failed"
    /\ \A t \in Threads : op[t] = "append"

\* ---- C5: flush() on an empty buffer opens no connection and does not fail.
C5_EmptyFlushNoop ==
    \A t \in Threads :
        (InFlushCall(t) /\ writer = t /\ buf0 = <<>>)
        => (nopen[t] = 0 /\ conn[t] = "closed" /\ pc[t] # "failed")

\* ---- C6: when the flush started by append fails, append returns Err (no
\* panic, the lock is not poisoned) and the buffer is what it was when the
\* lock was taken plus the new record at its end.
C6_AppendErrKeepsBuffer ==
    [][\A t \in Threads :
          (op[t] = "append" /\ pc[t] = "failed" /\ pc'[t] # "failed")
          => (/\ pc'[t] = "idle"
              /\ result'[t] = "err"
              /\ poisoned' = poisoned
              /\ writer' = None
              /\ buf' = Append(buf0, lr[t]))]_vars

C6_Witness ==
    \E t \in Threads :
        /\ pc[t] = "idle"
        /\ op[t] = "append"
        /\ result[t] = "err"
        /\ last_flush = "failed"
        /\ ~poisoned
        /\ Len(buf) = 3
        /\ buf = arrival

\* ---- C7: flush() never returns an error value: when flush_buf fails or the
\* lock is poisoned the thread panics, and the buffer is as flush() found it.
C7_FlushPanics ==
    /\ [](\A t \in Threads : op[t] = "flush" => result[t] # "err")
    /\ [][\A t \in Threads :
             /\ (op[t] = "flush" /\ pc[t] = "failed" /\ pc'[t] # "failed")
                => (pc'[t] = "panicked" /\ result'[t] = "none" /\ buf' = buf0)
             /\ (op[t] = "flush" /\ pc[t] = "lock" /\ poisoned /\ pc'[t] # "lock")
                => (pc'[t] = "panicked" /\ result'[t] = "none" /\ buf' = buf)]_vars

C7_Witness ==
    \E t \in Threads :
        /\ pc[t] = "panicked"
        /\ op[t] = "flush"
        /\ poisoned
        /\ last_flush = "failed"
        /\ Len(buf) = 2

\* ---- C8: the rows of the store are, in insertion order, a prefix of the
\* records in the order their appends pushed them under the lock.
C8_StoreOrderIsPushOrder == IsPrefix(store.rows, arrival)

\* two rows, pushed in an order other than stamping order, and a later batch
\* about to be committed after them
C8_Witness ==
    /\ Len(store.rows) = 2
    /\ store.rows[1].id > store.rows[2].id
    /\ \E t \in Threads : pc[t] = "commit" /\ Len(tx[t]) = 1

\* ---- C9: a thread between taking and dropping the guard is the only holder
\* of the lock; every step that touches the buffer, the store or a connection
\* is a step of the lock holder; and while a flush_buf runs the buffer does
\* not change.
C9_LockHeldThroughout ==
    /\ [](\A t \in Threads : pc[t] \in CsPcs => writer = t)
    /\ [][\A t \in Threads :
             /\ (pc'[t] # pc[t] /\ (buf' # buf \/ store' # store \/ conn' # conn))
                => (writer = t /\ \A u \in Threads \ {t} : pc'[u] = pc[u])
             /\ (pc[t] \in FlushPcs \ {"clear"}) => buf' = buf]_vars

\* one producer is inserting while another waits for the lock with its record
C9_Witness ==
    \E t, u \in Threads :
        /\ t # u
        /\ pc[t] = "insert"
        /\ writer = t
        /\ pc[u] = "lock"
        /\ op[u] = "append"
        /\ lr[u].id \notin Ids(buf)

\* ---- C10: new() always yields a ready sink and touches no store; nothing
\* is opened or written before the first append or flush call; with a locator
\* that cannot be opened, an error is seen only once a call has tried to open
\* the store.
C10_LazyConstruction ==
    /\ sink # "error"
    /\ (\A t \in Threads : op[t] = "none")
       => (/\ store = EmptyStore
           /\ last_flush = "none"
           /\ \A t \in Threads : nopen[t] = 0 /\ conn[t] = "closed")
    /\ (sink = "ready" /\ file_name = "bad")
       => (/\ store = EmptyStore
           /\ \A t \in Threads :
                (result[t] = "err" \/ pc[t] \in {"failed", "panicked"})
                => last_flush = "failed")

C10_Witness ==
    /\ sink = "ready"
    /\ file_name = "bad"
    /\ healthy
    /\ last_flush = "failed"
    /\ \E t \in Threads : result[t] = "err" /\ pc[t] = "idle"

\* ---- C11: a connection is open only inside the flush_buf of the lock
\* holder: it is closed when flush_buf is entered, closed again when flush_buf
\* has returned (Ok or Err), never open while no call is in progress, at most
\* one is open at a time and a call opens at most one.
C11_ConnectionPerFlush ==
    /\ \A t \in Threads :
          /\ conn[t] = "open" => (pc[t] \in FlushPcs \ {"connect"} /\ writer = t)
          /\ pc[t] = "connect" => (conn[t] = "closed" /\ nopen[t] = 0)
          /\ nopen[t] <= 1
    /\ Cardinality({t \in Threads : conn[t] = "open"}) <= 1
    /\ Quiescent => \A t \in Threads : conn[t] = "closed"

\* a later flush has its own connection open, after an earlier one committed rows
C11_Witness ==
    \E t \in Threads :
        /\ conn[t] = "open"
        /\ nopen[t] = 1
        /\ pc[t] = "insert"
        /\ Len(store.rows) >= 1

\* ---- C12: the table and the index exist before the transaction begins and
\* before any insert; and on a store that already has both, the two create
\* statements succeed (when the store answers) and leave the store, its rows
\* included, exactly as it was.
C12_BootstrapIdempotent ==
    /\ [](\A t \in Threads :
             pc[t] \in {"begin", "prepare", "insert", "commit"}
             => (store.table /\ store.index))
    /\ [][\A t \in Threads :
             (/\ pc[t] \in {"create_table", "create_index"}
              /\ pc'[t] # pc[t]
              /\ store.table /\ store.index
              /\ healthy)
             => (/\ store' = store
                 /\ pc'[t] = IF pc[t] = "create_table" THEN "create_index" ELSE "begin")]_vars

\* the bootstrap has run again on a store that already holds rows
C12_Witness ==
    \E t \in Threads :
        /\ pc[t] = "begin"
        /\ store.table
        /\ store.index
        /\ Len(store.rows) = 2

\* number of positions of s that hold r
Count(s, r) == Cardinality({i \in 1..Len(s) : s[i] = r})

\* ---- C13: a step that changes the buffer either appends the one record of
\* the pushing lock holder at the end, leaving what was there in place, or
\* empties the buffer after a commit that put all its records in the store;
\* and once the sink is constructed buf_size and file_name never change.
C13_BufferFrame ==
    [][/\ buf' # buf
          => \/ \E t \in Threads :
                   pc[t] = "push" /\ writer = t /\ buf' = Append(buf, lr[t])
             \/ \E t \in Threads :
                   /\ pc[t] = "clear"
                   /\ writer = t
                   /\ buf' = <<>>
                   /\ \A i \in 1..Len(buf) : Count(store.rows, buf[i]) = 1
       /\ sink = "ready" => (buf_size' = buf_size /\ file_name' = file_name)]_vars

\* both kinds of change have happened: a batch was removed, a record was added after it
C13_Witness ==
    /\ Quiescent
    /\ buf_size = 2
    /\ Len(store.rows) = 2
    /\ Len(buf) = 1
    /\ buf[1] = arrival[3]

\* ---- C14: whenever no call is in progress, every record that was pushed
\* under the lock is exactly once in the buffer or exactly once in the store,
\* never in both and never in neither, and nothing else is in either.
C14_Conservation ==
    Quiescent
    => /\ \A i \in 1..Len(arrival) :
             Count(buf, arrival[i]) + Count(store.rows, arrival[i]) = 1
       /\ Len(buf) + Len(store.rows) = Len(arrival)
       /\ Cardinality(Ids(arrival)) = Len(arrival)

\* after a failed flush: one record persisted earlier, two waiting in the buffer
C14_Witness ==
    /\ Quiescent
    /\ last_flush = "failed"
    /\ Len(store.rows) = 1
    /\ Len(buf) = 2

\* ---- C15: a flush() whose flush_buf failed panics while it holds the guard
\* and the lock becomes poisoned; the poison stays; from then on the buffer
\* and the store never change and no connection is opened, whether or not the
\* store answers again; an append that gets to the lock returns Err without
\* pushing, a flush() that gets to the lock panics; and the lock is poisoned
\* by nothing else, in particular not by an append whose flush failed.
C15_PoisonedLock ==
    /\ [][\A t \in Threads :
             (op[t] = "flush" /\ pc[t] = "failed" /\ pc'[t] # "failed")
             => (writer = t /\ pc'[t] = "panicked" /\ poisoned')]_vars
    /\ [][poisoned
          => (/\ poisoned'
              /\ buf' = buf
              /\ store' = store
              /\ arrival' = arrival
              /\ conn' = conn
              /\ \A t \in Threads : nopen'[t] = 0)]_vars
    /\ [][\A t \in Threads :
             (poisoned /\ pc[t] = "lock" /\ pc'[t] # "lock")
             => IF op[t] = "append"
                THEN pc'[t] = "idle" /\ result'[t] = "err"
                ELSE pc'[t] = "panicked"]_vars
    /\ [][(poisoned' /\ ~poisoned)
          => \E t \in Threads : op[t] = "flush" /\ pc[t] = "failed"]_vars

\* the store answers again, yet the append made after the panic got a lock
\* error (the buffer is far below buf_size, so no flush was due) and the
\* record left in the buffer is still not stored
C15_Witness ==
    \E t, u \in Threads :
        /\ poisoned
        /\ healthy
        /\ file_name = "good"
        /\ pc[t] = "panicked"
        /\ op[t] = "flush"
        /\ pc[u] = "idle"
        /\ op[u] = "append"
        /\ result[u] = "err"
        /\ buf_size = 3
        /\ Len(buf) = 1
        /\ store.rows = <<>>
        /\ next_id = 3

\* ---- C16 as stated: once the buffer was left at or above buf_size by a
\* failed flush, every later append that gets to the lock pushes its record
\* and goes on to flush again.
C16_Original ==
    [][\A t \in Threads :
          (op[t] = "append" /\ pc[t] = "lock" /\ pc'[t] # "lock" /\ Len(buf) >= buf_size)
          => pc'[t] = "push"]_vars

\* ---- C16 amended: as long as the lock is not poisoned, an append that
\* finds the buffer at or above buf_size pushes its record and attempts a
\* flush of the whole buffer; if the flush fails the buffer has grown by that
\* one record, if it succeeds all accumulated records were committed in one
\* transaction, in buffer order, behind the rows already stored, and the
\* buffer is empty; and a flush fails only at a step where the store does not
\* answer or the file cannot be opened (a retry is never refused for rows of
\* an earlier, rolled-back attempt).
C16_RetryOnNextAppend ==
    /\ [][\A t \in Threads :
             (op[t] = "append" /\ pc[t] = "lock" /\ pc'[t] # "lock" /\ ~poisoned)
             => pc'[t] = "push"]_vars
    /\ [][\A t \in Threads :
             (AppendReturns(t) /\ Len(buf0) >= buf_size)
             => /\ nopen[t] = 1
                /\ \/ result'[t] = "err" /\ buf' = Append(buf0, lr[t])
                   \/ /\ result'[t] = "ok"
                      /\ buf' = <<>>
                      /\ store'.rows = arrival]_vars
    /\ [][\A t \in Threads :
             (pc[t] = "commit" /\ pc'[t] = "clear")
             => (tx[t] = Batch(t) /\ store'.rows = store.rows \o Batch(t))]_vars
    /\ [][\A t \in Threads :
             (pc'[t] = "failed" /\ pc[t] # "failed")
             => (~healthy \/ file_name = "bad")]_vars

\* two records were left by failed flushes; the third append stored all three at once
C16_Witness ==
    \E t \in Threads :
        /\ pc[t] = "flushed"
        /\ op[t] = "append"
        /\ buf_size = 1
        /\ Len(buf0) = 2
        /\ ~explicit
        /\ store.rows = arrival
        /\ Len(store.rows) = 3

\* ---- C17: when append returns, on any of its paths, the lock is free; and
\* with running threads, store calls that return and a fair lock, every
\* thread waiting for the lock gets past it and every append call in progress
\* returns.
C17_AppendTerminates ==
    /\ [][\A t \in Threads : AppendReturns(t) => writer' = None]_vars
    /\ \A t \in Threads : (pc[t] = "lock") ~> (pc[t] # "lock")
    /\ \A t \in Threads : InAppend(t) ~> (pc[t] = "idle" /\ result[t] # "none")

\* an append waits for the lock while another append is flushing
C17_Witness ==
    \E t, u \in Threads :
        /\ t # u
        /\ pc[t] = "lock"
        /\ op[t] = "append"
        /\ op[u] = "append"
        /\ pc[u] = "commit"
        /\ writer = u

\* the records of s carry the clock reading taken when they were built: the
\* k-th record built (id k) read the k-th value of the clock (k - 1)
StampedAtStart(s) == \A i \in 1..Len(s) : s[i].ts = s[i].id - 1

\* ---- C18: an append that is still waiting for the lock already holds its
\* complete record, id and timestamp included, and the records in the buffer,
\* in an open transaction and in the store carry exactly the id and timestamp
\* given to them at the start of append.  (That two producers can therefore
\* leave records in an order other than timestamp order is the witness.)
C18_StampedBeforeLock ==
    /\ \A t \in Threads :
          (op[t] = "append" /\ pc[t] = "lock")
          => (/\ writer # t
              /\ lr[t].id >= 1
              /\ lr[t].ts = lr[t].id - 1
              /\ lr[t].id \notin Ids(arrival))
    /\ StampedAtStart(buf)
    /\ StampedAtStart(store.rows)
    /\ \A t \in Threads : StampedAtStart(tx[t])
    /\ \A t \in Threads : pc[t] \in CsPcs /\ op[t] = "append" => lr[t].ts = lr[t].id - 1

\* the store holds a record with a later timestamp before one with an earlier timestamp
C18_Witness ==
    /\ Quiescent
    /\ buf = <<>>
    /\ Len(store.rows) = 3
    /\ store.rows[1].ts > store.rows[2].ts
    /\ store.rows[2].ts < store.rows[3].ts

TypeOK ==
    /\ sink \in {"none", "ready", "error"}
    /\ buf_size \in 0..MaxBufSize
    /\ Len(buf) <= MaxRecords
    /\ \A t \in Threads : pc[t] \in CsPcs \cup {"idle", "lock", "panicked"}
    /\ file_name \in FileNames
    /\ writer \in Threads \cup {None}
    /\ poisoned \in BOOLEAN
    /\ healthy \in BOOLEAN
    /\ \A t \in Threads : conn[t] \in {"closed", "open"}
    /\ \A t \in Threads : result[t] \in {"none", "ok", "err"}
    /\ last_flush \in {"none", "ok", "failed"}
====
